---- MODULE Spec2Model ----
(***************************************************************************)
(* A model of lssg: the buffered reader CharReader                         *)
(* (src/src/lmarkdown/char_reader.rs) and the orchestration Lssg::render   *)
(* (src/src/lib.rs).                                                       *)
(*                                                                         *)
(* SpecReader: one CharReader over a finite in-memory byte source; every   *)
(* public operation of the reader is one action.                           *)
(*                                                                         *)
(* SpecRender, SpecWalk: one call of Lssg::render, one action per step of  *)
(* its body, over a configuration, an index document and an output         *)
(* directory drawn from bounded sets. SiteMap, Stylesheet, Parser and      *)
(* HtmlRenderer are not part of the modelled files: the site tree follows  *)
(* the specification's description of it, the parser and the renderer are  *)
(* calls that succeed or fail.                                             *)
(***************************************************************************)
EXTENDS Integers, Sequences, FiniteSets, TLC

\* ------------------------------------------------------------- bounds
\* Longest input handed to CharReader::new.
MaxLen == 4
\* Bytes are 0..MaxByte: all ASCII, so String::from_utf8 (lines 42, 55) accepts
\* every buffer and `as char` (lines 49, 62) keeps the code point. 0 is the byte
\* vec![0; length] fills a fresh buffer with.
MaxByte == 1
\* Largest length asked of peek_string / read_string.
MaxN == 3

Byte == 0..MaxByte
Inputs == UNION {[1..k -> Byte] : k \in 0..MaxLen}
Lengths == 1..MaxN
\* A predicate op: fn(char) -> bool is the set of characters it accepts.
Preds == SUBSET Byte
\* The most bytes one call of inner.read hands out during an operation: one at a
\* time (the shortest reads a source may make) or all that is asked for.
Chunks == {1, MaxN}

VARIABLES
    input,        \* the bytes given to CharReader::new (never changes)
    inner,        \* CharReader.inner: the bytes the source has not yet yielded
    peek_buffer,  \* CharReader.peek_buffer
    pos,          \* number of bytes consuming reads have taken so far
    last          \* the last operation: its arguments, its result, the state before

VARIABLES
    opts,         \* LssgOptions, and what the environment holds for this run
    index_doc,    \* the site tree SiteMap::from_index builds from options.index
    pc,           \* the step of render that runs next
    li,           \* position of the loop over options.links
    stylesheet,   \* the Stylesheet under construction: its sources, in order
    site_map,     \* SiteMap: the arena of nodes, a node's id is its index
    stylesheet_id,\* id of the main.css node
    favicon,      \* Option<usize>: id of the favicon node, 0 for None
    queue,        \* the walk's stack of ids
    fs,           \* the output directory: path -> [kind, content]
    returned,     \* "running", "ok", or the error render returned
    errors,       \* every error a call made by render has returned, in order
    written,      \* the paths this run has created or written
    visited       \* the ids the walk has popped and processed, in order

rvars == <<opts, index_doc, pc, li, stylesheet, site_map, stylesheet_id, favicon,
           queue, fs, returned, errors, written, visited>>

cvars == <<input, inner, peek_buffer, pos, last>>

vars == <<cvars, rvars>>

\* ------------------------------------------------------------ helpers
Min(a, b) == IF a < b THEN a ELSE b

Take(s, n) == SubSeq(s, 1, Min(n, Len(s)))

Drop(s, n) == SubSeq(s, Min(n, Len(s)) + 1, Len(s))

\* vec![0; n]
Zeros(n) == [i \in 1..n |-> 0]

\* Cursor::new(src).read(buf): copies min(|src|, |buf|) bytes to the front of buf
\* and leaves the rest of buf as it was.
CursorRead(src, buf) ==
    [i \in 1..Len(buf) |-> IF i <= Len(src) THEN src[i] ELSE buf[i]]

\* String::from_utf8 on bytes of the model's alphabet.
FromUtf8Ok(bytes) == \A i \in 1..Len(bytes) : bytes[i] < 128

\* A reader state.
Reader(in, pb, p) == [inner |-> in, peek_buffer |-> pb, pos |-> p]

\* inner.read(buf) of the source: at most `chunk` bytes, 0 only at the end.
InnerRead(in, m, ch) == Min(Min(m, Len(in)), ch)

\* ---------------------------------------------------------------- peek
\* The early copy of lines 20-23: it fills buf and falls through.
PeekEarly(pb, buf) == IF Len(pb) >= Len(buf) THEN CursorRead(pb, buf) ELSE buf

\* A pull of only the bytes the buffer lacks for a peek of n.
PeekPullMissing(r, n) == Min(n - Min(n, Len(r.peek_buffer)), Len(r.inner))

\* (&mut self.inner).take(buf.len()).read_to_end(&mut self.peek_buffer):
\* the number of bytes appended to peek_buffer.
PeekPull(r, n) == Min(n, Len(r.inner))

\* A slip at line 27: the buffer is refilled instead of extended.
PeekRefill(pb, pulled) == pulled

\* read_to_end(&mut self.peek_buffer) appends what it pulled (line 27).
PeekAppend(pb, pulled) == pb \o pulled

\* What peek does with a pull of 0 bytes (line 28).
PeekFailsOn(read) == read = 0

\* CharReader::peek(buf): [ok, buf, read, r].
Peek(r, buf) ==
    LET n    == Len(buf)
        buf1 == PeekEarly(r.peek_buffer, buf)
        read == PeekPull(r, n)
        pb   == PeekAppend(r.peek_buffer, Take(r.inner, read))
        r1   == Reader(Drop(r.inner, read), pb, r.pos)
    IN  IF PeekFailsOn(read)
        THEN [ok |-> FALSE, buf |-> buf1, read |-> 0, r |-> r1]
        ELSE [ok |-> TRUE, buf |-> CursorRead(pb, buf1), read |-> read, r |-> r1]

\* ---------------------------------------------------------------- read
\* The bytes of peek_buffer a read of m bytes takes (line 82).
AmountFromPeek(pb, m) == Min(Len(pb), m)

\* A slip at lines 84-86: the tail split_off returns is dropped and peek_buffer
\* keeps the bytes just handed out.
SplitOffKeepsHead(pb, a) == Take(pb, a)

\* peek_buffer after a read took a bytes of it: split_off(a), assigned back
\* (lines 84-86).
SplitOff(pb, a) == Drop(pb, a)

\* impl Read for CharReader: read(buf) with |buf| = m: [buf, read, r].
Read(r, buf, ch) ==
    LET m == Len(buf) IN
    IF r.peek_buffer = <<>>
    THEN LET t == InnerRead(r.inner, m, ch)
         IN  [buf  |-> CursorRead(Take(r.inner, t), buf),
              read |-> t,
              r    |-> Reader(Drop(r.inner, t), <<>>, r.pos + t)]
    ELSE LET a   == AmountFromPeek(r.peek_buffer, m)
             new == SplitOff(r.peek_buffer, a)
             b1  == CursorRead(Take(r.peek_buffer, a), buf)
             t   == InnerRead(r.inner, m - a, ch)
             ib  == CursorRead(Take(r.inner, t), Zeros(m - a))
         IN  [buf  |-> [i \in 1..m |-> IF i <= a THEN b1[i] ELSE ib[i - a]],
              read |-> a + t,
              r    |-> Reader(Drop(r.inner, t), new, r.pos + a + t)]

\* Read::read_exact(buf), the default method: read until buf is full; a read of 0
\* bytes before that is UnexpectedEof. `done` is the filled front of the buffer.
RECURSIVE ReadExactLoop(_, _, _, _)
ReadExactLoop(r, done, rest, ch) ==
    IF rest = <<>>
    THEN [ok |-> TRUE, buf |-> done, r |-> r]
    ELSE LET x == Read(r, rest, ch)
         IN  IF x.read = 0
             THEN [ok |-> FALSE, buf |-> done \o x.buf, r |-> x.r]
             ELSE ReadExactLoop(x.r, done \o Take(x.buf, x.read),
                                Drop(x.buf, x.read), ch)

\* A read_exact that leaves the reader as it found it when it fails.
ReadExactRestores(r, buf, ch) ==
    LET x == ReadExactLoop(r, <<>>, buf, ch)
    IN  IF x.ok THEN x ELSE [x EXCEPT !.r = r]

ReadExact(r, buf, ch) == ReadExactLoop(r, <<>>, buf, ch)

\* CharReader::read_until(op): read_char until a character fails op.
RECURSIVE ReadUntilLoop(_, _, _, _)
ReadUntilLoop(r, op, result, ch) ==
    LET x == ReadExact(r, Zeros(1), ch)
    IN  IF ~x.ok
        THEN [ok |-> FALSE, bytes |-> result, r |-> x.r]
        ELSE IF x.buf[1] \in op
             THEN ReadUntilLoop(x.r, op, Append(result, x.buf[1]), ch)
             ELSE [ok |-> TRUE, bytes |-> result, r |-> x.r]

\* A slip at line 70: the end of input ends the loop as a terminator would.
ReadUntilLenient(r, op, ch) ==
    [ReadUntilLoop(r, op, <<>>, ch) EXCEPT !.ok = TRUE]

\* A slip at lines 67-72: the terminating character is put back for the next read.
ReadUntilPushBack(r, op, ch) ==
    LET x == ReadUntilLoop(r, op, <<>>, ch)
        t == (r.peek_buffer \o r.inner)[Len(x.bytes) + 1]
    IN  IF x.ok
        THEN [x EXCEPT !.r = Reader(x.r.inner, <<t>> \o x.r.peek_buffer, x.r.pos - 1)]
        ELSE x

ReadUntil(r, op, ch) == ReadUntilLoop(r, op, <<>>, ch)

\* ------------------------------------------------------------- actions
Cur == Reader(inner, peek_buffer, pos)

\* What `last` keeps of one call: err is "none", "eof" or "utf8".
Call(name, n, op, ok, err, bytes) ==
    [op |-> name, n |-> n, pred |-> op, ok |-> ok, err |-> err, bytes |-> bytes,
     pos0 |-> pos, buf0 |-> peek_buffer, inner0 |-> inner]

Become(r) ==
    /\ inner' = r.inner
    /\ peek_buffer' = r.peek_buffer
    /\ pos' = r.pos
    /\ UNCHANGED <<input, rvars>>

\* No render is under way.
RenderIdle ==
    /\ opts = <<>> /\ index_doc = <<>> /\ pc = "idle" /\ li = 0
    /\ stylesheet = <<>> /\ site_map = <<>> /\ stylesheet_id = 0 /\ favicon = 0
    /\ queue = <<>> /\ fs = <<>> /\ returned = "idle" /\ errors = <<>>
    /\ written = {} /\ visited = <<>>

InitReader ==
    /\ RenderIdle
    /\ input \in Inputs
    /\ inner = input
    /\ peek_buffer = <<>>
    /\ pos = 0
    /\ last = Call("new", 0, {}, TRUE, "none", <<>>)

\* peek_string(length)
PeekString(n) ==
    \E x \in {Peek(Cur, Zeros(n))} :
    /\ Become(x.r)
    /\ last' = IF ~x.ok THEN Call("peek_string", n, {}, FALSE, "eof", <<>>)
               ELSE IF ~FromUtf8Ok(x.buf)
                    THEN Call("peek_string", n, {}, FALSE, "utf8", <<>>)
                    ELSE Call("peek_string", n, {}, TRUE, "none", x.buf)

\* peek_char()
PeekChar ==
    \E x \in {Peek(Cur, Zeros(1))} :
    /\ Become(x.r)
    /\ last' = IF ~x.ok THEN Call("peek_char", 1, {}, FALSE, "eof", <<>>)
               ELSE Call("peek_char", 1, {}, TRUE, "none", x.buf)

\* read_string(length)
ReadString(n, chunk) ==
    \E x \in {ReadExact(Cur, Zeros(n), chunk)} :
    /\ Become(x.r)
    /\ last' = IF ~x.ok THEN Call("read_string", n, {}, FALSE, "eof", <<>>)
               ELSE IF ~FromUtf8Ok(x.buf)
                    THEN Call("read_string", n, {}, FALSE, "utf8", <<>>)
                    ELSE Call("read_string", n, {}, TRUE, "none", x.buf)

\* read_char(): a buffer of one byte, so every read of the source is of one byte.
ReadChar ==
    \E x \in {ReadExact(Cur, Zeros(1), 1)} :
    /\ Become(x.r)
    /\ last' = IF ~x.ok THEN Call("read_char", 1, {}, FALSE, "eof", <<>>)
               ELSE Call("read_char", 1, {}, TRUE, "none", x.buf)

\* read_until(op)
ReadUntilOp(op) ==
    \E x \in {ReadUntil(Cur, op, 1)} :
    /\ Become(x.r)
    /\ last' = IF ~x.ok THEN Call("read_until", 0, op, FALSE, "eof", <<>>)
               ELSE Call("read_until", 0, op, TRUE, "none", x.bytes)

NextReader ==
    \/ \E n \in Lengths : PeekString(n)
    \/ PeekChar
    \/ \E n \in Lengths, ch \in Chunks : ReadString(n, ch)
    \/ ReadChar
    \/ \E op \in Preds : ReadUntilOp(op)

SpecReader == InitReader /\ [][NextReader]_vars

\* =============================================================== render
\* Nodes the index document adds below the root (SpecWalk).
MaxIndexNodes == 2

Last(s) == s[Len(s)]

Front(s) == SubSeq(s, 1, Len(s) - 1)

RECURSIVE SortedSeq(_)
SortedSeq(S) ==
    IF S = {} THEN <<>>
    ELSE LET m == CHOOSE x \in S : \A y \in S : x <= y
         IN  <<m>> \o SortedSeq(S \ {m})

\* ------------------------------------------------------------ site tree
\* sitemap::Node. parent 0 is None. input names the file a Resource is copied from.
Node(name, parent, children, type, keep, inp) ==
    [name |-> name, parent |-> parent, children |-> children, node_type |-> type,
     keep_name |-> keep, input |-> inp]

\* SiteMap::root()
Root == 1

IndexNames == {"a", "favicon.ico"}

IndexTypes == {"Page", "Resource", "Folder"}

\* The trees from_index may build with k nodes below the root: the root is a
\* directory-style page, every other node hangs below an earlier one.
IndexTreesOf(k) ==
    LET Ids == 2..(k + 1) IN
    { [i \in 1..(k + 1) |->
         IF i = Root
         THEN Node("", 0, SortedSeq({j \in Ids : par[j] = Root}), "Page", FALSE,
                   <<"index">>)
         ELSE Node(nm[i], par[i], SortedSeq({j \in Ids : par[j] = i}), ty[i], FALSE,
                   <<"src", i>>)] :
      par \in {f \in [Ids -> 1..(k + 1)] : \A i \in Ids : f[i] < i},
      nm \in [Ids -> IndexNames], ty \in [Ids -> IndexTypes] }

IndexTrees(k) == UNION {IndexTreesOf(j) : j \in 0..k}

\* SiteMap::get(id): fails when id is not in the arena.
GetOk(sm, id) == id \in 1..Len(sm)

\* SiteMap::add(node, parent_id) fails when parent_id is not in the arena.
AddOk(sm, parent_id) == GetOk(sm, parent_id)

\* A slip in add: the node keeps the parent its caller wrote into it.
AddKeepsParent(sm, node, parent_id) ==
    LET id == Len(sm) + 1
    IN  [i \in 1..id |->
           IF i = id THEN node
           ELSE IF i = parent_id
                THEN [sm[i] EXCEPT !.children = Append(@, id)]
                ELSE sm[i]]

\* SiteMap::add(node, parent_id): the arena with the node appended as the last
\* child of parent_id; the new id is the new length.
Add(sm, node, parent_id) ==
    LET id == Len(sm) + 1
    IN  [i \in 1..id |->
           IF i = id THEN [node EXCEPT !.parent = parent_id]
           ELSE IF i = parent_id
                THEN [sm[i] EXCEPT !.children = Append(@, id)]
                ELSE sm[i]]

\* SiteMap::path(id): the names from below the root down to id.
RECURSIVE Path(_, _)
Path(sm, id) ==
    IF sm[id].parent = 0 THEN <<>>
    ELSE Append(Path(sm, sm[id].parent), sm[id].name)

\* The ancestors of id, id first, the root last.
RECURSIVE Chain(_, _)
Chain(sm, id) ==
    IF sm[id].parent = 0 THEN <<id>> ELSE <<id>> \o Chain(sm, sm[id].parent)

\* A slip in rel_path: a ".." also for the common ancestor itself.
RelPathExtraUp(sm, from, to) ==
    LET cf  == Chain(sm, from)
        ct  == Chain(sm, to)
        inT == {ct[i] : i \in 1..Len(ct)}
        up  == CHOOSE k \in 1..Len(cf) :
                   cf[k] \in inT /\ \A j \in 1..(k - 1) : cf[j] \notin inT
        lca == cf[up]
        dn  == CHOOSE k \in 1..Len(ct) : ct[k] = lca
    IN  [i \in 1..up |-> ".."] \o [i \in 1..(dn - 1) |-> sm[ct[dn - i]].name]

\* SiteMap::rel_path(from, to): one ".." per step from `from` up to the lowest
\* common ancestor, then the names from there down to `to`.
RelPath(sm, from, to) ==
    LET cf  == Chain(sm, from)
        ct  == Chain(sm, to)
        inT == {ct[i] : i \in 1..Len(ct)}
        up  == CHOOSE k \in 1..Len(cf) :
                   cf[k] \in inT /\ \A j \in 1..(k - 1) : cf[j] \notin inT
        lca == cf[up]
        dn  == CHOOSE k \in 1..Len(ct) : ct[k] = lca
    IN  [i \in 1..(up - 1) |-> ".."] \o [i \in 1..(dn - 1) |-> sm[ct[dn - i]].name]

\* ----------------------------------------------------------- filesystem
\* The output directory is the path <<>>; a path is the names below it.
Dir == [kind |-> "dir", content |-> <<>>]

File(c) == [kind |-> "file", content |-> c]

Exists(f, p) == p \in DOMAIN f

IsDir(f, p) == Exists(f, p) /\ f[p].kind = "dir"

Put(f, p, e) == [q \in DOMAIN f \cup {p} |-> IF q = p THEN e ELSE f[q]]

\* The directory a path names once its ".." are resolved, or <<"?">> when the
\* resolution fails. lexical: ".." cancels the name before it unseen; otherwise
\* (POSIX) each name walked through must be an existing directory.
RECURSIVE Resolve(_, _, _, _)
Resolve(f, cur, rest, lexical) ==
    IF rest = <<>> THEN cur
    ELSE IF rest[1] = ".."
         THEN IF cur = <<>> THEN <<"?">>
              ELSE Resolve(f, Front(cur), Tail(rest), lexical)
         ELSE IF Len(rest) > 1 /\ rest[2] = ".." /\ lexical
              THEN Resolve(f, cur, Tail(Tail(rest)), lexical)
              ELSE IF Len(rest) > 1 /\ rest[2] = ".." /\ ~IsDir(f, Append(cur, rest[1]))
                   THEN <<"?">>
                   ELSE Resolve(f, Append(cur, rest[1]), Tail(rest), lexical)

\* fs::write(path, content) and fs::copy(input, path): [ok, fs, at]. The file's
\* directory must exist and the path must not name a directory.
FsWrite(f, path, content, lexical) ==
    LET p == Resolve(f, <<>>, path, lexical)
    IN  IF p = <<"?">> \/ p = <<>> \/ ~IsDir(f, Front(p)) \/ IsDir(f, p)
        THEN [ok |-> FALSE, fs |-> f, at |-> {}]
        ELSE [ok |-> TRUE, fs |-> Put(f, p, File(content)), at |-> {p}]

\* A create_dir that reports success and creates nothing.
FsCreateDirSkips(f, p) ==
    IF p = <<>> \/ ~IsDir(f, Front(p)) \/ Exists(f, p)
    THEN [ok |-> FALSE, fs |-> f, at |-> {}]
    ELSE [ok |-> TRUE, fs |-> f, at |-> {}]

\* fs::create_dir(path): the parent must exist, the path must not.
FsCreateDir(f, p) ==
    IF p = <<>> \/ ~IsDir(f, Front(p)) \/ Exists(f, p)
    THEN [ok |-> FALSE, fs |-> f, at |-> {}]
    ELSE [ok |-> TRUE, fs |-> Put(f, p, Dir), at |-> {p}]

\* fs::create_dir_all(path): creates the missing directories down to path; fails
\* when a name on the way is a file.
RECURSIVE FsCreateDirAll(_, _)
FsCreateDirAll(f, p) ==
    IF IsDir(f, p) THEN [ok |-> TRUE, fs |-> f, at |-> {}]
    ELSE IF Exists(f, p) THEN [ok |-> FALSE, fs |-> f, at |-> {}]
    ELSE IF p = <<>> THEN [ok |-> TRUE, fs |-> Put(f, p, Dir), at |-> {p}]
    ELSE LET up == FsCreateDirAll(f, Front(p))
         IN  IF ~up.ok THEN up
             ELSE [ok |-> TRUE, fs |-> Put(up.fs, p, Dir), at |-> up.at \cup {p}]

\* No output directory, and one holding a file of an earlier run.
NoFs == [q \in {} |-> Dir]

StaleFs == Put(Put(NoFs, <<>>, Dir), <<"stale">>, File(<<"old">>))

\* The output directory right after create_dir_all made it anew.
FreshFs == Put(NoFs, <<>>, Dir)

\* -------------------------------------------------------- render: build
\* The stylesheet render starts from (lines 90-100): the built-in default unless
\* a global stylesheet is configured and the default is overwritten.
StylesheetBase(o) ==
    IF o.global_stylesheet /\ o.overwrite_default_stylesheet
    THEN <<>> ELSE <<"default">>

\* render returns the error e (a `?`).
Fail(e) ==
    /\ pc' = "failed"
    /\ returned' = e
    /\ errors' = Append(errors, e)

Goto(step) ==
    /\ pc' = step
    /\ UNCHANGED <<returned, errors>>

\* Lines 90-100.
BuildStylesheet ==
    /\ pc = "stylesheet"
    /\ \/ /\ stylesheet' = IF opts.global_stylesheet
                           THEN Append(StylesheetBase(opts), "global")
                           ELSE StylesheetBase(opts)
          /\ Goto("links")
       \/ /\ opts.global_stylesheet
          /\ Fail("io: global stylesheet")
          /\ UNCHANGED stylesheet
    /\ UNCHANGED <<cvars, opts, index_doc, li, site_map, stylesheet_id, favicon,
                   queue, fs, written, visited>>

\* Lines 101-105: one turn of the loop over options.links.
AppendLink ==
    /\ pc = "links"
    /\ \/ /\ li > Len(opts.links)
          /\ Goto("from_index")
          /\ UNCHANGED <<li, stylesheet>>
       \/ /\ li <= Len(opts.links)
          /\ opts.links[li] = "stylesheet"
          /\ stylesheet' = Append(stylesheet, <<"link", li>>)
          /\ li' = li + 1
          /\ Goto("links")
       \/ /\ li <= Len(opts.links)
          /\ opts.links[li] = "stylesheet"
          /\ Fail("io: link")
          /\ UNCHANGED <<li, stylesheet>>
       \/ /\ li <= Len(opts.links)
          /\ opts.links[li] # "stylesheet"
          /\ li' = li + 1
          /\ Goto("links")
          /\ UNCHANGED stylesheet
    /\ UNCHANGED <<cvars, opts, index_doc, site_map, stylesheet_id, favicon, queue,
                   fs, written, visited>>

\* The removal of lines 162-165 moved up, ahead of the parse of the index.
FromIndexAfterRemoval ==
    /\ pc = "from_index"
    /\ fs' = NoFs
    /\ \/ /\ site_map' = index_doc
          /\ Goto("add_stylesheet")
       \/ /\ Fail("parse: index")
          /\ UNCHANGED site_map
    /\ UNCHANGED <<cvars, opts, index_doc, li, stylesheet, stylesheet_id, favicon,
                   queue, written, visited>>

\* Line 107.
FromIndex ==
    /\ pc = "from_index"
    /\ \/ /\ site_map' = index_doc
          /\ Goto("add_stylesheet")
       \/ /\ Fail("parse: index")
          /\ UNCHANGED site_map
    /\ UNCHANGED <<cvars, opts, index_doc, li, stylesheet, stylesheet_id, favicon,
                   queue, fs, written, visited>>

\* Lines 108-109.
AddStylesheet ==
    /\ pc = "add_stylesheet"
    /\ \/ /\ site_map' = Add(site_map,
                             Node("main.css", Root, <<>>, "Stylesheet", FALSE,
                                  stylesheet), Root)
          /\ stylesheet_id' = Len(site_map) + 1
          /\ Goto("favicon")
       \/ /\ Fail("add: main.css")
          /\ UNCHANGED <<site_map, stylesheet_id>>
    /\ UNCHANGED <<cvars, opts, index_doc, li, stylesheet, favicon, queue, fs,
                   written, visited>>

\* Lines 111-125.
AddFavicon ==
    /\ pc = "favicon"
    /\ \/ /\ ~opts.favicon
          /\ Goto("not_found")
          /\ UNCHANGED <<site_map, favicon>>
       \/ /\ opts.favicon
          /\ site_map' = Add(site_map,
                             Node("favicon.ico", Root, <<>>, "Resource", FALSE,
                                  <<"favicon">>), Root)
          /\ favicon' = Len(site_map) + 1
          /\ Goto("not_found")
       \/ /\ opts.favicon
          /\ Fail("add: favicon.ico")
          /\ UNCHANGED <<site_map, favicon>>
    /\ UNCHANGED <<cvars, opts, index_doc, li, stylesheet, stylesheet_id, queue, fs,
                   written, visited>>

\* What render does with the Err of the add of the not-found page (line 129,
\* `let _ =`): it drops it and goes on.
NotFoundAddErr(e) ==
    /\ errors' = Append(errors, e)
    /\ pc' = "remove"
    /\ UNCHANGED returned

\* Lines 127-142. File::open, filestem_from_path and Parser::parse are `?` calls.
AddNotFound ==
    /\ pc = "not_found"
    /\ \/ /\ opts.not_found_page = "none"
          /\ Goto("remove")
          /\ UNCHANGED site_map
       \/ /\ opts.not_found_page # "none"
          /\ site_map' = Add(site_map,
                             Node(opts.not_found_page, Root, <<>>, "Page", TRUE,
                                  <<"not_found">>), Root)
          /\ Goto("remove")
       \/ /\ opts.not_found_page # "none"
          /\ \E e \in {"io: open not found", "io: filestem", "parse: not found"} :
                Fail(e)
          /\ UNCHANGED site_map
       \/ /\ opts.not_found_page # "none"
          /\ NotFoundAddErr("add: not found")
          /\ UNCHANGED site_map
    /\ UNCHANGED <<cvars, opts, index_doc, li, stylesheet, stylesheet_id, favicon,
                   queue, fs, written, visited>>

\* ------------------------------------------------ render: output directory
\* A slip at line 162: the removal is never found necessary.
OutputNeverExists(f) == FALSE

\* self.options.output_directory.exists() (line 162).
OutputExists(f) == Exists(f, <<>>)

\* The output directory after a remove_dir_all that failed: as it was, or with
\* some of its content already gone.
AfterFailedRemove(f) == {f, Put(NoFs, <<>>, Dir)}

\* Lines 162-165.
RemoveOutput ==
    /\ pc = "remove"
    /\ \/ /\ ~OutputExists(fs)
          /\ Goto("create")
          /\ UNCHANGED fs
       \/ /\ OutputExists(fs)
          /\ fs' = NoFs
          /\ Goto("create")
       \/ /\ OutputExists(fs)
          /\ fs' \in AfterFailedRemove(fs)
          /\ Fail("io: remove_dir_all")
    /\ UNCHANGED <<cvars, opts, index_doc, li, stylesheet, site_map, stylesheet_id,
                   favicon, queue, written, visited>>

\* Lines 166-169: create_dir_all, then the walk's stack holds the root.
CreateOutput ==
    /\ pc = "create"
    /\ \/ \E r \in {FsCreateDirAll(fs, <<>>)} :
            /\ r.ok
            /\ fs' = r.fs
            /\ written' = written \cup r.at
            /\ queue' = <<Root>>
            /\ Goto("walk")
       \/ /\ Fail("io: create_dir_all")
          /\ UNCHANGED <<fs, written, queue>>
    /\ UNCHANGED <<cvars, opts, index_doc, li, stylesheet, site_map, stylesheet_id,
                   favicon, visited>>

\* ---------------------------------------------------------- render: walk
\* The calls the environment may fail while node n is written.
Faults(n) ==
    IF n.node_type = "Page"
    THEN IF n.keep_name THEN {"render", "write"} ELSE {"render", "mkdir", "write"}
    ELSE {"write"}

Failed(f, e) == [ok |-> FALSE, fs |-> f, at |-> {}, err |-> e]

\* A filesystem call's result as the walk's: its error is an io error.
Io(r) == [ok |-> r.ok, fs |-> r.fs, at |-> r.at,
          err |-> IF r.ok THEN "none" ELSE "io: walk"]

\* renderer.render(id, options): the page's HTML, which carries the link to the
\* stylesheet (lines 187-192).
Html(sm, id, sid) == <<"html", id, RelPath(sm, id, sid)>>

\* Lines 193-200 of the Page arm: where the HTML goes.
WritePage(sm, f, id, html, lexical, fault) ==
    LET n    == sm[id]
        path == Path(sm, id)
    IN  IF n.keep_name
        THEN IF fault = "write" THEN Failed(f, "io: walk")
             ELSE Io(FsWrite(f, path \o <<"..", n.name \o ".html">>, html, lexical))
        ELSE LET d == FsCreateDirAll(f, path)
             IN  IF fault = "mkdir" \/ ~d.ok THEN Failed(f, "io: walk")
                 ELSE IF fault = "write"
                      THEN [Failed(d.fs, "io: walk") EXCEPT !.at = d.at]
                 ELSE LET w == FsWrite(d.fs, Append(path, "index.html"), html,
                                       lexical)
                      IN  [Io(w) EXCEPT !.at = d.at \cup w.at]

\* Lines 172-202 for node id: [ok, fs, at, err]. fault names the call the
\* environment fails, "none" when it fails none.
WriteNode(sm, f, id, sid, lexical, fault) ==
    IF ~GetOk(sm, id) THEN Failed(f, "lookup")
    ELSE
    LET n    == sm[id]
        path == Path(sm, id)
    IN  CASE n.node_type = "Stylesheet" ->
                IF fault = "write" THEN Failed(f, "io: walk")
                ELSE Io(FsWrite(f, path, <<"css", n.input>>, lexical))
          [] n.node_type = "Resource" ->
                IF fault = "write" THEN Failed(f, "io: walk")
                ELSE Io(FsWrite(f, path, <<"copy", n.input>>, lexical))
          [] n.node_type = "Folder" ->
                IF fault = "write" THEN Failed(f, "io: walk")
                ELSE Io(FsCreateDir(f, path))
          [] n.node_type = "Page" ->
                IF fault = "render" THEN Failed(f, "render")
                ELSE WritePage(sm, f, id, Html(sm, id, sid), lexical, fault)

\* A slip at line 173: the children are pushed last child first, so that the
\* first child is on top.
PushFirstChildOnTop(q, children) ==
    Front(q) \o [i \in 1..Len(children) |-> children[Len(children) + 1 - i]]

\* queue.append(&mut node.children.clone()) after queue.pop() (lines 171-173).
Push(q, children) == Front(q) \o children

\* One turn of the loop at line 171 whose calls the environment lets through.
WalkStep ==
    /\ pc = "walk"
    /\ queue # <<>>
    /\ \E r \in {WriteNode(site_map, fs, Last(queue), stylesheet_id, opts.lexical,
                           "none")} :
        /\ fs' = r.fs
        /\ written' = written \cup r.at
        /\ visited' = Append(visited, Last(queue))
        /\ \/ /\ r.ok
              /\ queue' = Push(queue, site_map[Last(queue)].children)
              /\ Goto("walk")
           \/ /\ ~r.ok
              /\ Fail(r.err)
              /\ queue' = Front(queue)
    /\ UNCHANGED <<cvars, opts, index_doc, li, stylesheet, site_map, stylesheet_id,
                   favicon>>

\* One turn of the loop in which the environment fails a call.
WalkFault ==
    /\ pc = "walk"
    /\ queue # <<>>
    /\ \E fault \in Faults(site_map[Last(queue)]) :
        \E r \in {WriteNode(site_map, fs, Last(queue), stylesheet_id, opts.lexical,
                            fault)} :
            /\ fs' = r.fs
            /\ written' = written \cup r.at
            /\ visited' = Append(visited, Last(queue))
            /\ queue' = Front(queue)
            /\ Fail(IF r.err = "render" THEN "render" ELSE "env: " \o r.err)
    /\ UNCHANGED <<cvars, opts, index_doc, li, stylesheet, site_map, stylesheet_id,
                   favicon>>

\* The stack is empty: Ok(()) (line 205).
Finish ==
    /\ pc = "walk"
    /\ queue = <<>>
    /\ pc' = "done"
    /\ returned' = "ok"
    /\ UNCHANGED <<cvars, opts, index_doc, li, stylesheet, site_map, stylesheet_id,
                   favicon, queue, fs, errors, written, visited>>

\* The orders in which the children of a node may be pushed.
SiblingOrders(children) ==
    {[i \in 1..Len(children) |-> children[f[i]]] :
        f \in Permutations(1..Len(children))}

\* The walk of lines 169-205 from stack q and output directory f, its calls let
\* through by the environment, with the children of each node pushed in any
\* order: the set of its possible ends [ok, fs].
RECURSIVE WalkOutcomes(_, _, _, _, _)
WalkOutcomes(sm, q, f, sid, lexical) ==
    IF q = <<>> THEN {[ok |-> TRUE, fs |-> f]}
    ELSE LET r == WriteNode(sm, f, Last(q), sid, lexical, "none")
         IN  IF ~r.ok THEN {[ok |-> FALSE, fs |-> r.fs]}
             ELSE UNION {WalkOutcomes(sm, Push(q, c), r.fs, sid, lexical) :
                            c \in SiblingOrders(sm[Last(q)].children)}

NextRender ==
    \/ BuildStylesheet
    \/ AppendLink
    \/ FromIndex
    \/ AddStylesheet
    \/ AddFavicon
    \/ AddNotFound
    \/ RemoveOutput
    \/ CreateOutput
    \/ WalkStep
    \/ WalkFault
    \/ Finish

\* No reader is in use.
ReaderIdle ==
    /\ input = <<>> /\ inner = <<>> /\ peek_buffer = <<>> /\ pos = 0
    /\ last = <<>>

LinkLists == {<<>>, <<"stylesheet">>, <<"other">>, <<"other", "stylesheet">>}

\* LssgOptions and the environment of a run: out_exists, whether the output
\* directory exists beforehand; lexical, how the platform resolves "..".
Options(globals, overwrites, links, favicons, notfounds, exists, lexicals) ==
    [global_stylesheet : globals, overwrite_default_stylesheet : overwrites,
     links : links, favicon : favicons, not_found_page : notfounds,
     out_exists : exists, lexical : lexicals]

InitRenderWith(options, trees) ==
    /\ ReaderIdle
    /\ opts \in options
    /\ index_doc \in trees
    /\ pc = "stylesheet"
    /\ li = 1
    /\ stylesheet = <<>>
    /\ site_map = <<>>
    /\ stylesheet_id = 0
    /\ favicon = 0
    /\ queue = <<>>
    /\ fs = IF opts.out_exists THEN StaleFs ELSE NoFs
    /\ returned = "running"
    /\ errors = <<>>
    /\ written = {}
    /\ visited = <<>>

\* Every configuration, over the index documents with at most one linked node.
InitRender ==
    InitRenderWith(Options(BOOLEAN, BOOLEAN, LinkLists, BOOLEAN,
                           {"none", "404", "a"}, BOOLEAN, BOOLEAN),
                   IndexTrees(1))

SpecRender == InitRender /\ [][NextRender]_vars

\* One stylesheet configuration, over the index documents with at most
\* MaxIndexNodes linked nodes.
InitWalk ==
    InitRenderWith(Options({TRUE}, {FALSE}, {<<"other", "stylesheet">>}, BOOLEAN,
                           {"none", "404", "a"}, {TRUE}, BOOLEAN),
                   IndexTrees(MaxIndexNodes))

SpecWalk == InitWalk /\ [][NextRender]_vars

\* ------------------------------------------------------- site tree calls
\* Nodes of the largest tree SpecTree builds.
MaxTreeNodes == 5

\* What `last` keeps of one call on the SiteMap: id is the id returned, 0 for Err.
TreeCall(name, parent_id, ok, id) ==
    [op |-> name, parent_id |-> parent_id, ok |-> ok, id |-> id,
     before |-> site_map]

\* The nodes a caller hands to add: their parent field is not yet filled in.
TreeNodes == {Node("b", 0, <<>>, "Folder", FALSE, <<>>)}

\* from_index has built the tree; no render runs.
InitTree ==
    /\ input = <<>> /\ inner = <<>> /\ peek_buffer = <<>> /\ pos = 0
    /\ index_doc \in IndexTrees(1)
    /\ site_map = index_doc
    /\ last = [op |-> "from_index", parent_id |-> 0, ok |-> TRUE, id |-> Root,
               before |-> <<>>]
    /\ opts = <<>> /\ pc = "tree" /\ li = 0 /\ stylesheet = <<>>
    /\ stylesheet_id = 0 /\ favicon = 0 /\ queue = <<>> /\ fs = <<>>
    /\ returned = "idle" /\ errors = <<>> /\ written = {} /\ visited = <<>>

\* add(node, parent_id), also with a parent_id that is in no arena.
TreeAdd(node, parent_id) ==
    /\ pc = "tree"
    /\ Len(site_map) < MaxTreeNodes
    /\ IF AddOk(site_map, parent_id)
       THEN /\ site_map' = Add(site_map, node, parent_id)
            /\ last' = TreeCall("add", parent_id, TRUE, Len(site_map) + 1)
       ELSE /\ UNCHANGED site_map
            /\ last' = TreeCall("add", parent_id, FALSE, 0)
    /\ UNCHANGED <<input, inner, peek_buffer, pos, opts, index_doc, pc, li,
                   stylesheet, stylesheet_id, favicon, queue, fs, returned, errors,
                   written, visited>>

\* add_stylesheet(name, stylesheet, parent_id): add of a Stylesheet node.
TreeAddStylesheet(parent_id) ==
    TreeAdd(Node("main.css", 0, <<>>, "Stylesheet", FALSE, <<"default">>),
            parent_id)

NextTree ==
    \/ \E node \in TreeNodes, parent_id \in 0..(MaxTreeNodes + 1) :
            TreeAdd(node, parent_id)
    \/ \E parent_id \in 0..(MaxTreeNodes + 1) : TreeAddStylesheet(parent_id)

SpecTree == InitTree /\ [][NextTree]_vars

\* =================================================== reader properties
IsPeek(c) == c.op \in {"peek_string", "peek_char"}

IsRead(c) == c.op \in {"read_string", "read_char"}

\* The input not yet consumed when the last call began, and what a call asking
\* for n bytes should have got of it.
Unconsumed0 == Drop(input, last.pos0)

Next0(n) == Take(Unconsumed0, n)

\* C1: a peek(n) that returned n bytes, with at least n bytes unconsumed, is
\* followed by a peek(n) or read(n) returning the same n bytes.
C1_PeekThenSameBytes ==
    [][(/\ IsPeek(last) /\ last.ok
        /\ Len(input) - pos >= last.n
        /\ IsPeek(last') \/ IsRead(last')
        /\ last'.n = last.n
        /\ last'.pos0 = pos)
       => (last'.ok /\ last'.bytes = last.bytes)]_vars

\* C2: peek(n) with at least n bytes unconsumed (buffer plus source) succeeds,
\* returns the first n unconsumed bytes and leaves at least n bytes buffered.
C2_PeekSucceeds ==
    (IsPeek(last) /\ Len(Unconsumed0) >= last.n)
        => (/\ last.ok
            /\ last.bytes = Next0(last.n)
            /\ Len(peek_buffer) >= last.n)

\* C3: peek(n) with fewer than n bytes unconsumed fails with end-of-input.
C3_PeekFailsAtEnd ==
    (IsPeek(last) /\ Len(Unconsumed0) < last.n)
        => (~last.ok /\ last.err = "eof")

\* C4: read(n) with at least n bytes unconsumed returns the next n bytes, the
\* buffered ones first, and advances the position by n; with fewer it fails with
\* end-of-input.
C4_ReadExact ==
    IsRead(last) =>
        IF Len(Unconsumed0) >= last.n
        THEN /\ last.ok
             /\ last.bytes = Next0(last.n)
             /\ last.bytes = Take(last.buf0 \o last.inner0, last.n)
             /\ pos = last.pos0 + last.n
             /\ peek_buffer = Drop(last.buf0, last.n)
             /\ inner = Drop(last.inner0, last.n - Min(last.n, Len(last.buf0)))
        ELSE ~last.ok /\ last.err = "eof"

\* A successful read that drew on the buffer and on the source.
C4_Witness ==
    /\ last.op = "read_string" /\ last.ok
    /\ last.buf0 # <<>>
    /\ last.n > Len(last.buf0)

\* The first position of s holding a character outside op (Len(s) + 1: none).
RECURSIVE FirstOutside(_, _, _)
FirstOutside(s, op, i) ==
    IF i > Len(s) \/ s[i] \notin op THEN i ELSE FirstOutside(s, op, i + 1)

HasTerminator(c) == FirstOutside(Unconsumed0, c.pred, 1) <= Len(Unconsumed0)

\* C5: read_until with a terminator ahead returns the longest prefix whose
\* characters satisfy the predicate and consumes it and the terminator: the next
\* read starts right after the terminator.
C5_ReadUntilPrefix ==
    (last.op = "read_until" /\ HasTerminator(last)) =>
        LET k == FirstOutside(Unconsumed0, last.pred, 1)
        IN  /\ last.ok
            /\ last.bytes = Take(Unconsumed0, k - 1)
            /\ pos = last.pos0 + k
            /\ peek_buffer \o inner = Drop(Unconsumed0, k)

\* A read_until that returned a non-empty prefix and left input behind it.
C5_Witness ==
    /\ last.op = "read_until" /\ last.ok
    /\ last.bytes # <<>>
    /\ peek_buffer \o inner # <<>>

\* C6: the buffer followed by what the source still holds is the input from the
\* read position on; a peek leaves the position alone and moves bytes from the
\* front of the source to the end of the buffer.
C6_BufferIsNextInput ==
    /\ peek_buffer \o inner = Drop(input, pos)
    /\ IsPeek(last) =>
        /\ pos = last.pos0
        /\ \E k \in 0..Len(last.inner0) :
            /\ peek_buffer = last.buf0 \o Take(last.inner0, k)
            /\ inner = Drop(last.inner0, k)

\* A peek, after some bytes were consumed, that extended a non-empty buffer and
\* left bytes in the source.
C6_Witness ==
    /\ IsPeek(last) /\ last.ok
    /\ pos > 0
    /\ last.buf0 # <<>>
    /\ Len(peek_buffer) > Len(last.buf0)
    /\ inner # <<>>

\* C7: read_until fails with end-of-input when every unconsumed character
\* satisfies the predicate (also when none is left).
C7_ReadUntilEof ==
    (last.op = "read_until" /\ ~HasTerminator(last))
        => (~last.ok /\ last.err = "eof")

\* A read_until that ran over accepted characters into the end of the input.
C7_Witness ==
    /\ last.op = "read_until" /\ ~last.ok
    /\ Unconsumed0 # <<>>
    /\ \A i \in 1..Len(Unconsumed0) : Unconsumed0[i] \in last.pred

IsConsuming(c) == c.op \in {"read_string", "read_char", "read_until"}

\* C20: a consuming read that fails with end-of-input has taken every byte that
\* was left, in the buffer and in the source, and put none back; and a call on a
\* reader with nothing left fails with end-of-input and leaves nothing, so every
\* later read and peek fails as well.
C20_FailedReadConsumes ==
    /\ (IsConsuming(last) /\ ~last.ok) =>
          /\ last.err = "eof"
          /\ peek_buffer = <<>> /\ inner = <<>>
          /\ pos = Len(input)
    /\ ((IsConsuming(last) \/ IsPeek(last))
            /\ last.buf0 = <<>> /\ last.inner0 = <<>>) =>
          /\ ~last.ok /\ last.err = "eof"
          /\ peek_buffer = <<>> /\ inner = <<>>

\* A read_string that failed with bytes left both in the buffer and in the source.
C20_Witness ==
    /\ last.op = "read_string" /\ ~last.ok
    /\ last.buf0 # <<>> /\ last.inner0 # <<>>
    /\ pos = Len(input)

\* ================================================ site tree properties
\* The node k steps up the parent chain of id; 0 once the chain has left the arena.
RECURSIVE Climb(_, _, _)
Climb(sm, id, k) ==
    IF k = 0 \/ id \notin 1..Len(sm) THEN (IF id \in 1..Len(sm) THEN id ELSE 0)
    ELSE Climb(sm, sm[id].parent, k - 1)

\* How many times id stands among the children of node p.
Listed(sm, p, id) ==
    Cardinality({i \in 1..Len(sm[p].children) : sm[p].children[i] = id})

RootedTree(sm) ==
    /\ Len(sm) >= 1
    /\ sm[Root].parent = 0
    /\ \A id \in 1..Len(sm) :
        /\ \A i \in 1..Len(sm[id].children) : sm[id].children[i] \in 1..Len(sm)
        /\ id # Root =>
            /\ sm[id].parent \in 1..Len(sm)
            /\ \A p \in 1..Len(sm) :
                   Listed(sm, p, id) = IF p = sm[id].parent THEN 1 ELSE 0
        /\ Listed(sm, id, Root) = 0
        /\ \A k \in 1..Len(sm) : Climb(sm, id, k) # id
        /\ \E k \in 0..(Len(sm) - 1) : Climb(sm, id, k) = Root

\* What makes a node the node it is: all but the list of its children.
Identity(n) == [n EXCEPT !.children = <<>>]

\* C11: after from_index and any adds the site tree is a rooted tree; an add below
\* a parent that is not in the arena fails and leaves the tree as it was; an add
\* that succeeds returns a fresh id, records parent_id as the parent of the new
\* node and leaves every earlier id with the node it had.
C11_RootedTree ==
    /\ RootedTree(site_map)
    /\ last.op = "add" =>
        /\ last.ok = GetOk(last.before, last.parent_id)
        /\ ~last.ok => site_map = last.before
        /\ last.ok =>
            /\ last.id = Len(last.before) + 1
            /\ Len(site_map) = last.id
            /\ site_map[last.id].parent = last.parent_id
            /\ \A i \in 1..Len(last.before) :
                   Identity(site_map[i]) = Identity(last.before[i])

\* An add below a node that an earlier add appended.
C11_Witness ==
    /\ last.op = "add" /\ last.ok
    /\ last.parent_id > Len(index_doc)
    /\ Len(site_map) = MaxTreeNodes

\* The number of steps from id up to the root.
Depth(sm, id) == CHOOSE k \in 0..Len(sm) : Climb(sm, id, k) = Root

Depths(sm) == [id \in 1..Len(sm) |-> Depth(sm, id)]

\* id and the nodes above it; dep is Depths(sm).
Ancestors(sm, dep, id) == {Climb(sm, id, k) : k \in 0..dep[id]}

\* The lowest common ancestor: the deepest node above both.
LCA(sm, dep, from, to) ==
    CHOOSE a \in Ancestors(sm, dep, from) \cap Ancestors(sm, dep, to) :
        \A b \in Ancestors(sm, dep, from) \cap Ancestors(sm, dep, to) :
            dep[b] <= dep[a]

\* Two children of one node that is two steps below the root.
SiblingsAtDepth2(sm, dep, x, y) ==
    /\ x # y
    /\ sm[x].parent = sm[y].parent
    /\ sm[x].parent # 0
    /\ dep[sm[x].parent] = 2

\* C12: rel_path(from, to) is depth(from) - depth(LCA) times ".." and then the
\* names from below the lowest common ancestor down to `to`; between two children
\* of a node at depth 2 it is "../y".
C12_RelPathShape ==
    \A dep \in {Depths(site_map)} :
    \A from \in 1..Len(site_map), to \in 1..Len(site_map) :
    \A a \in {LCA(site_map, dep, from, to)}, rel \in {RelPath(site_map, from, to)} :
        /\ rel = [i \in 1..(dep[from] - dep[a]) |-> ".."]
                     \o Drop(Path(site_map, to), dep[a])
        /\ SiblingsAtDepth2(site_map, dep, from, to) =>
              rel = <<"..", site_map[to].name>>

\* A tree with two children below a node at depth 2.
C12_Witness ==
    \E x \in 1..Len(site_map), y \in 1..Len(site_map) :
        /\ SiblingsAtDepth2(site_map, Depths(site_map), x, y)
        /\ RelPath(site_map, x, y) = <<"..", site_map[y].name>>

\* =================================================== render properties
\* What this run has written below the output directory.
NodeArtifacts == written \ {<<>>}

\* C8: the output directory is removed (if present) and created anew before any
\* node is written, whenever the walk is reached; nothing is written beside what
\* an earlier run left, and after a successful render the directory holds only
\* what this run wrote.
C8_FreshOutputDirectory ==
    /\ pc \in {"walk", "done"} => <<>> \in written
    /\ NodeArtifacts # {} =>
        /\ <<>> \in written
        /\ DOMAIN fs \subseteq written
    /\ returned = "ok" => DOMAIN fs \subseteq written
    /\ <<>> \notin written => (fs = NoFs \/ fs \in AfterFailedRemove(StaleFs))

\* A successful render into a directory that existed before.
C8_Witness ==
    /\ pc = "done" /\ opts.out_exists
    /\ Cardinality(NodeArtifacts) >= 3

\* C9: the first error of any call made by render ends render with that error.
C9_FailFast ==
    errors # <<>> => (pc = "failed" /\ returned = errors[1] /\ Len(errors) = 1)

\* C10: whether the walk succeeds, and what a successful walk leaves in the
\* output directory, is the same for every order of the siblings.
C10_SiblingOrderIrrelevant ==
    (pc = "done" \/ (pc = "failed" /\ returned = "io: walk")) =>
        \A o \in WalkOutcomes(site_map, <<Root>>, FreshFs, stylesheet_id,
                              opts.lexical) :
            /\ o.ok = (pc = "done")
            /\ o.ok => o.fs = fs

\* The HTML files in the output directory.
HtmlFiles(f) ==
    {p \in DOMAIN f : f[p].kind = "file" /\ f[p].content[1] = "html"}

\* What a link found in the file at p denotes: the href resolved, name by name,
\* against the directory holding the file; <<"?">> when it leaves the output
\* directory.
LinkTarget(f, p, href) == Resolve(f, Front(p), href, TRUE)

\* C13: in every HTML file render has written, the stylesheet href resolved
\* against the file's directory denotes main.css in the output directory, the
\* path of the stylesheet node.
C13_StylesheetHrefResolves ==
    \A p \in HtmlFiles(fs) :
        LinkTarget(fs, p, fs[p].content[3]) = Path(site_map, stylesheet_id)

\* Where the output directory must hold something for node id: its path, and
\* for a page the HTML file.
ArtifactPaths(sm, id) ==
    LET n == sm[id]
        path == Path(sm, id)
    IN  IF n.node_type # "Page" THEN {path}
        ELSE IF n.keep_name THEN {Append(Front(path), n.name \o ".html")}
        ELSE {path, Append(path, "index.html")}

\* The output directory f holds the artifact of node id.
ArtifactAt(sm, f, id, sid) ==
    LET n == sm[id]
        path == Path(sm, id)
    IN  /\ ArtifactPaths(sm, id) \subseteq DOMAIN f
        /\ CASE n.node_type = "Stylesheet" -> f[path] = File(<<"css", n.input>>)
             [] n.node_type = "Resource" -> f[path] = File(<<"copy", n.input>>)
             [] n.node_type = "Folder" -> f[path] = Dir
             [] n.node_type = "Page" /\ n.keep_name ->
                    f[Append(Front(path), n.name \o ".html")]
                        = File(Html(sm, id, sid))
             [] OTHER ->
                    /\ f[path] = Dir
                    /\ f[Append(path, "index.html")] = File(Html(sm, id, sid))

\* C14: after a successful render the output directory holds, for every node,
\* its artifact at path(id), an artifact of its own, and nothing else; a
\* keep-name page is the file name.html beside, not in, a directory of its name.
C14_OneArtifactPerNode ==
    returned = "ok" =>
        /\ \A id \in 1..Len(site_map) :
               ArtifactAt(site_map, fs, id, stylesheet_id)
        /\ \A i \in 1..Len(site_map), j \in 1..Len(site_map) :
               i # j => ArtifactPaths(site_map, i) \cap ArtifactPaths(site_map, j) = {}
        /\ DOMAIN fs = UNION {ArtifactPaths(site_map, id) : id \in 1..Len(site_map)}

\* The sources the links of kind stylesheet contribute, from link i on.
RECURSIVE LinkSheets(_, _)
LinkSheets(links, i) ==
    IF i > Len(links) THEN <<>>
    ELSE (IF links[i] = "stylesheet" THEN <<(<<"link", i>>)>> ELSE <<>>)
         \o LinkSheets(links, i + 1)

\* The sources of the merged stylesheet, in order, for options o.
MergedSheet(o) ==
    (IF o.overwrite_default_stylesheet THEN <<>> ELSE <<"default">>)
    \o (IF o.global_stylesheet THEN <<"global">> ELSE <<>>)
    \o LinkSheets(o.links, 1)

\* C15: main.css as written is the built-in default iff
\* overwrite_default_stylesheet is unset, then the global stylesheet if one is
\* configured, then every link of kind stylesheet in the order of the list.
C15_MergedStylesheet ==
    (Exists(fs, <<"main.css">>) /\ fs[<<"main.css">>].content[1] = "css") =>
        fs[<<"main.css">>].content[2] = MergedSheet(opts)

Range(q) == {q[i] : i \in 1..Len(q)}

NoRepeat(q) == Cardinality(Range(q)) = Len(q)

\* Where id stands in the sequence q.
Position(q, id) == CHOOSE i \in 1..Len(q) : q[i] = id

\* id or a node above it is on the stack.
Pending(sm, q, id) == \E k \in 0..Len(sm) : Climb(sm, id, k) \in Range(q)

\* C16: the walk starts with the root and processes no node twice, so the loop
\* takes at most Len(site_map) turns, one per entry of visited: it ends. Every node not yet processed is on the stack or below a node on the
\* stack, and when the stack is empty every node has been processed; of two
\* children of a node the later one is processed first.
C16_WalkVisitsEachOnce ==
    /\ Len(visited) <= Len(site_map)
    /\ NoRepeat(visited) /\ NoRepeat(queue)
    /\ Range(visited) \cap Range(queue) = {}
    /\ Range(visited) \cup Range(queue) \subseteq 1..Len(site_map)
    /\ visited # <<>> => visited[1] = Root
    /\ (pc = "walk" /\ visited = <<>>) => queue = <<Root>>
    /\ pc = "walk" =>
          \A id \in 1..Len(site_map) :
              id \in Range(visited) \/ Pending(site_map, queue, id)
    /\ pc = "done" => Range(visited) = 1..Len(site_map)
    /\ \A p \in Range(visited) :
          \A i \in 1..Len(site_map[p].children), j \in 1..Len(site_map[p].children) :
              LET x == site_map[p].children[i]
                  y == site_map[p].children[j]
              IN  (i < j /\ x \in Range(visited) /\ y \in Range(visited))
                      => Position(visited, y) < Position(visited, x)

\* A finished walk of a tree with a node two steps below the root.
C16_Witness ==
    /\ pc = "done"
    /\ Len(visited) = Len(site_map)
    /\ \E id \in 1..Len(site_map) : site_map[id].parent \notin {0, Root}

\* Only folders and directory-style pages have children.
OnlyDirsHaveChildren(sm) ==
    \A id \in 1..Len(sm) :
        sm[id].children # <<>> =>
            \/ sm[id].node_type = "Folder"
            \/ sm[id].node_type = "Page" /\ ~sm[id].keep_name

\* C18: a node is processed after its parent; and in a tree where only folders
\* and directory-style pages have children, whenever a node waits on the stack
\* its parent has been processed and the directory at the parent's path, which
\* is to hold the node's artifact, exists and was made by this run.
C18_ParentDirectoryFirst ==
    /\ \A id \in Range(visited) :
          id # Root =>
              /\ site_map[id].parent \in Range(visited)
              /\ Position(visited, site_map[id].parent) < Position(visited, id)
    /\ (pc = "walk" /\ OnlyDirsHaveChildren(site_map)) =>
          \A id \in Range(queue) :
              IF id = Root THEN IsDir(fs, <<>>) /\ <<>> \in written
              ELSE /\ site_map[id].parent \in Range(visited)
                   /\ IsDir(fs, Path(site_map, site_map[id].parent))
                   /\ Path(site_map, site_map[id].parent) \in written

\* A node two steps below the root has been written into the directory its
\* parent's step made.
C18_Witness ==
    /\ pc \in {"walk", "done"}
    /\ OnlyDirsHaveChildren(site_map)
    /\ \E id \in Range(visited) :
          /\ site_map[id].parent \notin {0, Root}
          /\ Path(site_map, id) \in written

\* The steps of render before the output directory is touched, and the errors
\* render returns from them.
BuildSteps == {"stylesheet", "links", "from_index", "add_stylesheet", "favicon",
               "not_found", "remove"}

BuildErrors == {"io: global stylesheet", "io: link", "parse: index",
                "add: main.css", "add: favicon.ico", "io: open not found",
                "io: filestem", "parse: not found"}

\* The output directory as the run found it.
InitialFs(o) == IF o.out_exists THEN StaleFs ELSE NoFs

\* C19: up to the removal at line 162, and when render has returned the error of
\* a step before it, the output directory is as the run found it and nothing
\* has been written.
C19_BuildFailureKeepsOutput ==
    (pc \in BuildSteps \/ (pc = "failed" /\ returned \in BuildErrors)) =>
        /\ fs = InitialFs(opts)
        /\ written = {}

\* render has failed on the not-found document, the last step of the build, with
\* an output directory of an earlier run in place.
C19_Witness ==
    /\ pc = "failed" /\ returned = "parse: not found"
    /\ opts.out_exists
    /\ fs = StaleFs
    /\ Len(site_map) >= 3

====
